---- MODULE Spec2Model ----
(***************************************************************************)
(* MRI Analysis XAI backend: the FastAPI gateway (backend/main.py) and the *)
(* Gemini analysis client (backend/gemini_analyzer.py).                    *)
(*                                                                         *)
(* Text is modelled character by character as TLA+ strings; Python values  *)
(* (the result of json.loads, the dictionaries the analyzer builds) are    *)
(* tagged records.  Time is counted in whole seconds.                      *)
(***************************************************************************)
EXTENDS Integers, Sequences, FiniteSets, TLC

(***************************************************************************)
(* Python str operations used by the code.                                 *)
(***************************************************************************)
MinOf(S) == CHOOSE x \in S : \A y \in S : x <= y
MaxOf(S) == CHOOSE x \in S : \A y \in S : x >= y

\* s[i] with a 1-based index
CharAt(s, i) == SubSeq(s, i, i)

\* s[k:k+1] with Python's 0-based index: "" past the end
At(s, k) == IF k >= 0 /\ k < Len(s) THEN SubSeq(s, k + 1, k + 1) ELSE ""

\* s[a:b]
Slice(s, a, b) == SubSeq(s, a + 1, IF b < Len(s) THEN b ELSE Len(s))

\* s.startswith(p)
StartsWith(s, p) == Len(s) >= Len(p) /\ SubSeq(s, 1, Len(p)) = p

\* s.endswith(p)
EndsWith(s, p) == Len(s) >= Len(p) /\ SubSeq(s, Len(s) - Len(p) + 1, Len(s)) = p

\* p in s
Contains(s, p) == \E i \in 1..(Len(s) - Len(p) + 1) : SubSeq(s, i, i + Len(p) - 1) = p

\* the characters str.strip() removes (those a TLA+ string can hold)
IsSpace(c) == c \in {" ", "\t", "\n", "\r", "\f"}

\* s.strip()
Strip(s) ==
  LET keep == {i \in 1..Len(s) : ~IsSpace(CharAt(s, i))}
  IN  IF keep = {} THEN "" ELSE SubSeq(s, MinOf(keep), MaxOf(keep))

UpperLetters == "ABCDEFGHIJKLMNOPQRSTUVWXYZ"
LowerLetters == "abcdefghijklmnopqrstuvwxyz"

LowerChar(c) ==
  LET hit == {i \in 1..Len(UpperLetters) : CharAt(UpperLetters, i) = c}
  IN  IF hit = {} THEN c ELSE CharAt(LowerLetters, MinOf(hit))

\* s.lower()
RECURSIVE Lower(_)
Lower(s) ==
  IF Len(s) = 0 THEN ""
  ELSE IF Len(s) = 1 THEN LowerChar(s)
  ELSE LET half == Len(s) \div 2
       IN  Lower(SubSeq(s, 1, half)) \o Lower(SubSeq(s, half + 1, Len(s)))

(***************************************************************************)
(* Python values.                                                          *)
(***************************************************************************)
PyDict(m)  == [t |-> "dict", members |-> m]
PyList(xs) == [t |-> "list", items |-> xs]
PyStr(s)   == [t |-> "str", s |-> s]
PyInt(lit)   == [t |-> "int", lit |-> lit]
PyFloat(lit) == [t |-> "float", lit |-> lit]
PyBool(b)  == [t |-> "bool", b |-> b]
PyNone     == [t |-> "NoneType"]

EmptyMembers == [k \in {} |-> PyNone]

\* d[k] = v
SetItem(m, k, v) == [x \in (DOMAIN m) \cup {k} |-> IF x = k THEN v ELSE m[x]]

\* an exception instance; str(e) is its msg
Exc(type, msg) == [type |-> type, msg |-> msg]

(***************************************************************************)
(* json.loads (CPython 3.11 json.decoder / json.scanner), on the JSON      *)
(* grammar without the \u and \b escapes (neither has a TLA+ literal).     *)
(***************************************************************************)
Ok(v, end)    == [ok |-> TRUE, v |-> v, end |-> end]
Err(msg, pos) == [ok |-> FALSE, msg |-> msg, pos |-> pos]

JsonWs == {" ", "\t", "\n", "\r"}

\* WHITESPACE.match(s, k).end()
SkipWs(s, k) == MinOf({j \in k..Len(s) : At(s, j) \notin JsonWs})

Digits == "0123456789"
IsDigit(c) == Len(c) = 1 /\ Contains(Digits, c)
DigitsEnd(s, k) == MinOf({j \in k..Len(s) : ~IsDigit(At(s, j))})

ControlChars == {"\t", "\n", "\r", "\f"}

Unescape(esc) ==
  CASE esc = "n" -> "\n"
    [] esc = "t" -> "\t"
    [] esc = "r" -> "\r"
    [] esc = "f" -> "\f"
    [] OTHER -> esc

\* py_scanstring: one round of its loop, stop being the next terminator (or the end)
RECURSIVE ScanString(_, _, _, _)
ScanChunk(s, begin, k, acc, stop) ==
  IF At(s, stop) = "" THEN Err("Unterminated string starting at", begin)
  ELSE IF At(s, stop) = "\"" THEN Ok(PyStr(acc \o Slice(s, k, stop)), stop + 1)
  ELSE IF At(s, stop) \in ControlChars THEN Err("Invalid control character at", stop)
  ELSE IF At(s, stop + 1) = "" THEN Err("Unterminated string starting at", begin)
  ELSE IF At(s, stop + 1) \in {"\"", "\\", "/", "f", "n", "r", "t"}
    THEN ScanString(s, begin, stop + 2, acc \o Slice(s, k, stop) \o Unescape(At(s, stop + 1)))
  ELSE Err("Invalid \\escape", stop)

\* scanstring(s, end): k is the position being read, begin the opening quote
ScanString(s, begin, k, acc) ==
  ScanChunk(s, begin, k, acc,
            MinOf({j \in k..Len(s) : At(s, j) \in {"", "\"", "\\"} \cup ControlChars}))

\* NUMBER_RE, the exponent part: [end of the match, is a float]
MatchExp(s, fracEnd, hasFrac, expAt) ==
  IF expAt >= 0 /\ IsDigit(At(s, expAt))
    THEN [end |-> DigitsEnd(s, expAt), float |-> TRUE]
    ELSE [end |-> fracEnd, float |-> hasFrac]

\* NUMBER_RE, after the integer and fraction parts
MatchAfterFrac(s, fracEnd, hasFrac) ==
  MatchExp(s, fracEnd, hasFrac,
           IF At(s, fracEnd) \in {"e", "E"}
             THEN (IF At(s, fracEnd + 1) \in {"+", "-"} THEN fracEnd + 2 ELSE fracEnd + 1)
             ELSE -1)

\* NUMBER_RE, after the integer part; intEnd is -1 when there is none
MatchAfterInt(s, intEnd) ==
  IF intEnd < 0 THEN [end |-> -1, float |-> FALSE]
  ELSE IF At(s, intEnd) = "." /\ IsDigit(At(s, intEnd + 1))
    THEN MatchAfterFrac(s, DigitsEnd(s, intEnd + 1), TRUE)
  ELSE MatchAfterFrac(s, intEnd, FALSE)

\* NUMBER_RE, the integer part from k1 (past the sign)
MatchInt(s, k1) ==
  MatchAfterInt(s, IF At(s, k1) = "0" THEN k1 + 1
                   ELSE IF IsDigit(At(s, k1)) THEN DigitsEnd(s, k1) ELSE -1)

\* NUMBER_RE.match(s, k): the end of the match and whether it is a float; end -1 when none
MatchNumber(s, k) == MatchInt(s, IF At(s, k) = "-" THEN k + 1 ELSE k)

RECURSIVE ScanOnce(_, _), ObjectLoop(_, _, _), ArrayLoop(_, _, _)

\* JSONObject: after a ",", next is the position of the next key's quote
ObjectNextKey(s, pairs, next) ==
  IF At(s, next) # "\""
    THEN Err("Expecting property name enclosed in double quotes", next)
    ELSE ObjectLoop(s, next + 1, pairs)

\* JSONObject: after a value, at the "}" or the ","
ObjectDelimiter(s, pairs, after) ==
  IF At(s, after) = "}" THEN Ok(PyDict(pairs), after + 1)
  ELSE IF At(s, after) # "," THEN Err("Expecting ',' delimiter", after)
  ELSE ObjectNextKey(s, pairs, SkipWs(s, after + 1))

\* JSONObject: the value of key has been scanned
ObjectAfterValue(s, members, key, val) ==
  IF ~val.ok THEN val
  ELSE ObjectDelimiter(s, SetItem(members, key.v.s, val.v), SkipWs(s, val.end))

\* JSONObject: at the ":" after a key
ObjectColon(s, members, key, colon) ==
  IF At(s, colon) # ":" THEN Err("Expecting ':' delimiter", colon)
  ELSE ObjectAfterValue(s, members, key, ScanOnce(s, SkipWs(s, colon + 1)))

\* JSONObject: the key has been scanned
ObjectAfterKey(s, members, key) ==
  IF ~key.ok THEN key
  ELSE ObjectColon(s, members, key,
                   IF At(s, key.end) # ":" THEN SkipWs(s, key.end) ELSE key.end)

\* the while loop of JSONObject: end is just past the key's opening quote
ObjectLoop(s, end, members) == ObjectAfterKey(s, members, ScanString(s, end - 1, end, ""))

\* JSONObject: at the first character that is no whitespace
ObjectStart(s, end) ==
  IF At(s, end) = "}" THEN Ok(PyDict(EmptyMembers), end + 1)
  ELSE IF At(s, end) # "\""
    THEN Err("Expecting property name enclosed in double quotes", end)
  ELSE ObjectLoop(s, end + 1, EmptyMembers)

\* JSONObject(s_and_end, ...): end0 is just past the "{"
JSONObject(s, end0) ==
  ObjectStart(s, IF At(s, end0) \in JsonWs THEN SkipWs(s, end0) ELSE end0)

\* JSONArray: after a value, at the "]" or the ","
ArrayDelimiter(s, items, after) ==
  IF At(s, after) = "]" THEN Ok(PyList(items), after + 1)
  ELSE IF At(s, after) # "," THEN Err("Expecting ',' delimiter", after)
  ELSE ArrayLoop(s, SkipWs(s, after + 1), items)

\* JSONArray: a value has been scanned
ArrayAfterValue(s, values, val) ==
  IF ~val.ok THEN val
  ELSE ArrayDelimiter(s, Append(values, val.v), SkipWs(s, val.end))

\* the while loop of JSONArray
ArrayLoop(s, end, values) == ArrayAfterValue(s, values, ScanOnce(s, end))

\* JSONArray: at the first character that is no whitespace
ArrayStart(s, end) ==
  IF At(s, end) = "]" THEN Ok(PyList(<<>>), end + 1) ELSE ArrayLoop(s, end, <<>>)

\* JSONArray(s_and_end, ...): end0 is just past the "["
JSONArray(s, end0) ==
  ArrayStart(s, IF At(s, end0) \in JsonWs THEN SkipWs(s, end0) ELSE end0)

\* scan_once: a number, then the constants the scanner tries after it
ScanNumber(s, k, num) ==
  IF num.end >= 0
    THEN Ok(IF num.float THEN PyFloat(Slice(s, k, num.end)) ELSE PyInt(Slice(s, k, num.end)),
            num.end)
  ELSE IF Slice(s, k, k + 3) = "NaN" THEN Ok(PyFloat("NaN"), k + 3)
  ELSE IF Slice(s, k, k + 8) = "Infinity" THEN Ok(PyFloat("Infinity"), k + 8)
  ELSE IF Slice(s, k, k + 9) = "-Infinity" THEN Ok(PyFloat("-Infinity"), k + 9)
  ELSE Err("Expecting value", k)

\* scan_once(s, idx); StopIteration(idx) becomes "Expecting value" at idx
ScanOnce(s, k) ==
  IF At(s, k) = "" THEN Err("Expecting value", k)
  ELSE IF At(s, k) = "\"" THEN ScanString(s, k, k + 1, "")
  ELSE IF At(s, k) = "{" THEN JSONObject(s, k + 1)
  ELSE IF At(s, k) = "[" THEN JSONArray(s, k + 1)
  ELSE IF Slice(s, k, k + 4) = "null" THEN Ok(PyNone, k + 4)
  ELSE IF Slice(s, k, k + 4) = "true" THEN Ok(PyBool(TRUE), k + 4)
  ELSE IF Slice(s, k, k + 5) = "false" THEN Ok(PyBool(FALSE), k + 5)
  ELSE ScanNumber(s, k, MatchNumber(s, k))

\* str(JSONDecodeError(msg, doc, pos)); nls are the newlines before pos
ErrorText(msg, pos, nls) ==
  msg \o ": line " \o ToString(Cardinality(nls) + 1)
      \o " column " \o ToString(IF nls = {} THEN pos + 1 ELSE pos - MaxOf(nls))
      \o " (char " \o ToString(pos) \o ")"

DecodeErrorText(msg, doc, pos) ==
  ErrorText(msg, pos, {j \in 0..(pos - 1) : At(doc, j) = "\n"})

Raise(e) == [ok |-> FALSE, exc |-> e]

\* JSONDecoder.decode: nothing but whitespace may follow the value
DecodeEnd(s, r, end) ==
  IF end # Len(s) THEN Raise(Exc("JSONDecodeError", DecodeErrorText("Extra data", s, end)))
  ELSE [ok |-> TRUE, v |-> r.v]

\* JSONDecoder.decode, after raw_decode
Decode(s, r) ==
  IF ~r.ok THEN Raise(Exc("JSONDecodeError", DecodeErrorText(r.msg, s, r.pos)))
  ELSE DecodeEnd(s, r, SkipWs(s, r.end))

\* json.loads(s): [ok, v] or [ok, exc]
JsonLoads(s) == Decode(s, ScanOnce(s, SkipWs(s, 0)))

(***************************************************************************)
(* GeminiMRIAnalyzer.analyze_mri, from the response text to the result.     *)
(***************************************************************************)
\* A TLA+ string literal cannot hold U+0060, the backtick: "~" stands for it
\* in every text of this module, and no text uses "~" for anything else.
Backtick == "~"
Fence     == Backtick \o Backtick \o Backtick
FenceJson == Fence \o "json"

RequiredFields ==
  <<"primary_diagnosis", "affected_regions", "clinical_findings", "explanation",
    "risk_assessment">>

FieldSet == {RequiredFields[i] : i \in 1..Len(RequiredFields)}

\* lines 110-111 cutting the fence and leaving its language tag
DropFenceKeepTag(response_text) ==
  IF StartsWith(response_text, FenceJson)
    THEN Slice(response_text, 3, Len(response_text)) ELSE response_text

\* lines 110-111
DropJsonFence(response_text) ==
  IF StartsWith(response_text, FenceJson)
    THEN Slice(response_text, 7, Len(response_text)) ELSE response_text

\* lines 112-113
DropLeadingFence(response_text) ==
  IF StartsWith(response_text, Fence)
    THEN Slice(response_text, 3, Len(response_text)) ELSE response_text

\* lines 114-115
DropTrailingFence(response_text) ==
  IF EndsWith(response_text, Fence)
    THEN Slice(response_text, 0, Len(response_text) - 3) ELSE response_text

\* lines 110-117: remove markdown code blocks if present
StripFences(response_text) ==
  Strip(DropTrailingFence(DropLeadingFence(DropJsonFence(response_text))))

\* key not in obj
NotIn(obj, key) ==
  IF obj.t = "dict" THEN [ok |-> TRUE, b |-> key \notin DOMAIN obj.members]
  ELSE IF obj.t = "list"
    THEN [ok |-> TRUE,
          b |-> ~\E i \in 1..Len(obj.items) : obj.items[i].t = "str" /\ obj.items[i].s = key]
  ELSE IF obj.t = "str" THEN [ok |-> TRUE, b |-> ~Contains(obj.s, key)]
  ELSE Raise(Exc("TypeError", "argument of type '" \o obj.t \o "' is not iterable"))

\* obj[key] = value
AssignItem(obj, key, value) ==
  IF obj.t = "dict" THEN [ok |-> TRUE, v |-> PyDict(SetItem(obj.members, key, value))]
  ELSE IF obj.t = "list"
    THEN Raise(Exc("TypeError", "list indices must be integers or slices, not str"))
  ELSE Raise(Exc("TypeError", "'" \o obj.t \o "' object does not support item assignment"))

\* lines 123-142: the placeholder of each required field
Placeholder(key) ==
  CASE key = "primary_diagnosis" ->
         PyDict([classification |-> PyStr("Inconclusive"), confidence |-> PyInt("0")])
    [] key = "affected_regions" -> PyList(<<>>)
    [] key = "clinical_findings" ->
         PyList(<<PyStr("Unable to determine clinical findings")>>)
    [] key = "explanation" ->
         PyStr("Analysis completed but detailed explanation not available.")
    [] key = "risk_assessment" ->
         PyDict([risk_level |-> PyStr("Unknown"),
                 rationale |-> PyStr("Risk assessment not available")])

RECURSIVE Backfill(_, _)

\* the assignment of the i-th placeholder has run
BackfillSet(i, set) == IF ~set.ok THEN set ELSE Backfill(set.v, i + 1)

\* the membership test of the i-th field has run
BackfillTest(analysis, i, missing) ==
  IF ~missing.ok THEN missing
  ELSE IF ~missing.b THEN Backfill(analysis, i + 1)
  ELSE BackfillSet(i, AssignItem(analysis, RequiredFields[i], Placeholder(RequiredFields[i])))

\* lines 123-144: validate required fields, from the i-th on
Backfill(analysis, i) ==
  IF i > Len(RequiredFields) THEN [ok |-> TRUE, v |-> analysis]
  ELSE BackfillTest(analysis, i, NotIn(analysis, RequiredFields[i]))

\* line 151 without the two lower() calls
IsRateLimitCaseSensitive(error_msg) ==
  \/ Contains(error_msg, "429")
  \/ Contains(error_msg, "quota")
  \/ Contains(error_msg, "rate limit")

\* line 151
IsRateLimit(error_msg) ==
  \/ Contains(error_msg, "429")
  \/ Contains(Lower(error_msg), "quota")
  \/ Contains(Lower(error_msg), "rate limit")

\* line 170
IsJsonError(error_msg) == Contains(Lower(error_msg), "json")

\* lines 152-167
RateLimitResult ==
  PyDict([error |-> PyStr("Rate limit exceeded"),
          details |-> PyStr("You've hit the Gemini API rate limit. Please wait 60 seconds and try again."),
          suggestion |-> PyStr("The free tier allows 15 requests per minute. Wait a moment before trying again."),
          primary_diagnosis |->
            PyDict([classification |-> PyStr("Rate Limit"), confidence |-> PyInt("0")]),
          affected_regions |-> PyList(<<>>),
          clinical_findings |-> PyList(<<PyStr("Rate limit exceeded - please wait")>>),
          explanation |-> PyStr("API rate limit reached. Free tier: 15 requests/min. Please wait 60 seconds."),
          risk_assessment |->
            PyDict([risk_level |-> PyStr("Unknown"),
                    rationale |-> PyStr("Cannot assess due to rate limiting")])])

\* lines 171-185
ParseErrorResult(error_msg) ==
  PyDict([error |-> PyStr("Failed to parse AI response"),
          details |-> PyStr("JSON parsing failed: " \o error_msg),
          primary_diagnosis |->
            PyDict([classification |-> PyStr("Parsing Error"), confidence |-> PyInt("0")]),
          affected_regions |-> PyList(<<>>),
          clinical_findings |-> PyList(<<PyStr("Response parsing failed")>>),
          explanation |-> PyStr("The AI response could not be parsed as JSON: " \o error_msg),
          risk_assessment |->
            PyDict([risk_level |-> PyStr("Unknown"),
                    rationale |-> PyStr("Cannot assess due to parsing error")])])

\* lines 188-202
GeneralErrorResult(error_msg) ==
  PyDict([error |-> PyStr(error_msg),
          details |-> PyStr("Failed to analyze MRI image"),
          primary_diagnosis |->
            PyDict([classification |-> PyStr("Error"), confidence |-> PyInt("0")]),
          affected_regions |-> PyList(<<>>),
          clinical_findings |-> PyList(<<PyStr("Analysis failed")>>),
          explanation |-> PyStr("An error occurred during analysis: " \o error_msg),
          risk_assessment |->
            PyDict([risk_level |-> PyStr("Unknown"),
                    rationale |-> PyStr("Could not assess risk due to error")])])

\* lines 146-202: the except block
HandleException(e) ==
  IF IsRateLimit(e.msg) THEN RateLimitResult
  ELSE IF IsJsonError(e.msg) THEN ParseErrorResult(e.msg)
  ELSE GeneralErrorResult(e.msg)

(***************************************************************************)
(* What the external model can do with one generate_content call.          *)
(***************************************************************************)
ReturnsText(text) == [kind |-> "text", text |-> text]
CallRaises(msg)   == [kind |-> "call_raises", exc |-> Exc("Exception", msg)]
TextRaises(msg)   == [kind |-> "text_raises", exc |-> Exc("ValueError", msg)]

\* lines 123-144 on what json.loads gave
ValidateParsed(parsed) == IF ~parsed.ok THEN parsed ELSE Backfill(parsed.v, 1)

\* lines 119-144: parse the cleaned text and validate the required fields
ParseAndBackfill(response_text) == ValidateParsed(JsonLoads(response_text))

\* lines 102-144: the try block from the call on; [ok, v] or [ok, exc]
TryBlock(o) ==
  IF o.kind = "text" THEN ParseAndBackfill(StripFences(Strip(o.text)))
  ELSE Raise(o.exc)

\* line 146 as "except json.JSONDecodeError"
CatchesDecodeErrors(e) == e.type = "JSONDecodeError"

\* line 146: except Exception
Catches(e) == e.type \in {"Exception", "ValueError", "TypeError", "JSONDecodeError"}

\* lines 144-202: how analyze_mri leaves for the outcome r of its try block:
\* [ok |-> TRUE, v |-> the value returned] or [ok |-> FALSE, exc |-> raised]
Leave(r) ==
  IF r.ok THEN [ok |-> TRUE, v |-> r.v]
  ELSE IF Catches(r.exc) THEN [ok |-> TRUE, v |-> HandleException(r.exc)]
  ELSE Raise(r.exc)

\* lines 102-202: what analyze_mri does for an outcome of the call
AnalyzeOutcome(o) == Leave(TryBlock(o))

(***************************************************************************)
(* Response texts and error messages the external model is drawn from.     *)
(***************************************************************************)
\* the JSON text of one member of the requested structure (prompt, lines 56-75)
MemberText(key) ==
  CASE key = "primary_diagnosis" ->
         "\"primary_diagnosis\": {\"classification\": \"Normal\", \"confidence\": 90}"
    [] key = "affected_regions" ->
         "\"affected_regions\": [{\"location\": \"apex\", \"severity\": \"mild\"}]"
    [] key = "clinical_findings" -> "\"clinical_findings\": [\"wall thinning\"]"
    [] key = "explanation" -> "\"explanation\": \"clear\""
    [] key = "risk_assessment" ->
         "\"risk_assessment\": {\"risk_level\": \"Low\", \"rationale\": \"none\"}"

JoinMember(keys, i, rest) ==
  IF RequiredFields[i] \notin keys THEN rest
  ELSE IF rest = "" THEN MemberText(RequiredFields[i])
  ELSE MemberText(RequiredFields[i]) \o ",\n  " \o rest

RECURSIVE MembersText(_, _)
MembersText(keys, i) ==
  IF i > Len(RequiredFields) THEN "" ELSE JoinMember(keys, i, MembersText(keys, i + 1))

\* a JSON object holding exactly the required fields in keys
ObjectText(keys) == "{" \o MembersText(keys, 1) \o "}"

ObjectBodies == {ObjectText(keys) : keys \in SUBSET FieldSet}

AllNames ==
  "primary_diagnosis affected_regions clinical_findings explanation risk_assessment"

\* JSON texts that json.loads accepts and that are no object
NonObjectBodies ==
  { "[]", "[1, 2]", "\"Normal\"", "42", "-1.5e3", "null", "true", "NaN",
    "[\"primary_diagnosis\"]",
    "[\"primary_diagnosis\", \"affected_regions\", \"clinical_findings\", \"explanation\", \"risk_assessment\"]",
    "\"" \o AllNames \o "\"" }

\* objects outside the requested schema that json.loads accepts
OtherObjectBodies ==
  { "{\"diagnosis\": \"Normal\"}",
    "{\"primary_diagnosis\": {\"classification\": \"Normal\", \"confidence\": NaN}}",
    "{\"explanation\": \"a\", \"explanation\": \"b\"}",
    "{\"explanation\": \"fenced with " \o Fence \o "\"}" }

\* texts json.loads rejects
InvalidBodies ==
  { "", "I cannot analyze this image.", "Here is the JSON: {}",
    "{\"explanation\": \"clear\",}", "{\"explanation\": \"clear\"} Done.",
    "{\"explanation\": \"clear", "{explanation: 1}", "[1, 2",
    "{\"" \o "explanation\" \"clear\"}" }

Bodies == ObjectBodies \cup NonObjectBodies \cup OtherObjectBodies \cup InvalidBodies

Wrappers ==
  { "none", "json", "bare", "json_tight", "bare_tight", "json_padded", "bare_padded",
    "json_open", "upper_tag" }

\* the fences of the claim: a complete fence, tagged json or bare
FenceWrappers == {"json", "bare", "json_tight", "bare_tight", "json_padded", "bare_padded"}

\* the response text that wraps body
Wrap(wrapper, body) ==
  CASE wrapper = "none"        -> body
    [] wrapper = "json"        -> FenceJson \o "\n" \o body \o "\n" \o Fence
    [] wrapper = "bare"        -> Fence \o "\n" \o body \o "\n" \o Fence
    [] wrapper = "json_tight"  -> FenceJson \o body \o Fence
    [] wrapper = "bare_tight"  -> Fence \o body \o Fence
    [] wrapper = "json_padded" -> "\n " \o FenceJson \o " \n\n" \o body \o "\n \t" \o Fence \o "  \n"
    [] wrapper = "bare_padded" -> " " \o Fence \o "\r\n" \o body \o "\r\n" \o Fence \o "\n"
    [] wrapper = "json_open"   -> FenceJson \o "\n" \o body
    [] wrapper = "upper_tag"   -> Fence \o "JSON\n" \o body \o "\n" \o Fence

\* str(e) of exceptions the client library raises from generate_content
CallMessages ==
  { "429 Resource has been exhausted (e.g. check quota).",
    "QUOTA EXCEEDED for project",
    "Rate Limit reached for model",
    "503 upstream reset, request id 14293",
    "Invalid JSON payload received. Error 429",
    "Invalid JSON payload received.",
    "400 Request contains an invalid argument: json_schema",
    "500 An internal error has occurred.",
    "Deadline Exceeded",
    "" }

\* str(e) of the ValueError response.text raises for a response without parts
TextMessages ==
  { "Invalid operation: The response.text quick accessor requires the response to contain a valid Part, but none were returned." }

Outcomes ==
  {[kind |-> "text", body |-> b, wrapper |-> w] : b \in Bodies, w \in Wrappers}
    \cup {[kind |-> "call_raises", msg |-> m] : m \in CallMessages}
    \cup {[kind |-> "text_raises", msg |-> m] : m \in TextMessages}

\* the outcome of the call an element of Outcomes describes
OutcomeOf(i) ==
  CASE i.kind = "text"        -> ReturnsText(Wrap(i.wrapper, i.body))
    [] i.kind = "call_raises" -> CallRaises(i.msg)
    [] i.kind = "text_raises" -> TextRaises(i.msg)

\* the outcomes the gateway model draws a call's outcome from
GatewayOutcomes ==
  { [kind |-> "text", body |-> ObjectText(FieldSet), wrapper |-> "json"],
    [kind |-> "text", body |-> "I cannot analyze this image.", wrapper |-> "none"],
    [kind |-> "text",
     body |-> "{\"primary_diagnosis\": {\"classification\": \"Normal\", \"confidence\": NaN}}",
     wrapper |-> "bare"],
    [kind |-> "call_raises", msg |-> "429 Resource has been exhausted (e.g. check quota)."],
    [kind |-> "text_raises",
     msg |-> "Invalid operation: The response.text quick accessor requires the response to contain a valid Part, but none were returned."] }

(***************************************************************************)
(* Bounds and constants.                                                   *)
(***************************************************************************)
NumRequests == 2          \* /analyze requests in one run
StartTime == 10           \* time.time() when the first request arrives
Horizon == 3              \* seconds the clock runs on
MaxTime == StartTime + Horizon

min_request_interval == 3

Req == 1..NumRequests

\* UploadFile.content_type: the declared media type, or None
ContentTypes == {PyStr("image/png"), PyStr("text/plain"), PyNone}

\* Image.open(...).mode
ImageModes == {"L", "RGB"}

(***************************************************************************)
(* State.                                                                  *)
(***************************************************************************)
VARIABLES
  now,                \* time.time()
  last_request_time,  \* analyzer.last_request_time
  running,            \* the request whose handler holds the event loop, 0 when none
  pc,                 \* where each request's handler stands
  upload,             \* each request's file.content_type
  frame,              \* the handler's locals: image.mode, current_time, wait_time
  result,             \* the handler's local result (line 47)
  response,           \* the HTTP response sent for each request
  log,                \* history: the generate_content calls made, in order
  an_pc,       \* analyze_mri after the call: "called", "text", "clean", "raised", "returned"
  an_in,       \* the element of Outcomes the call produced
  an_text,     \* response_text
  an_exc,      \* the exception the except block caught
  an_result    \* what analyze_mri returned (or the exception that left it)

gvars == <<now, last_request_time, running, pc, upload, frame, result, response, log>>
avars == <<an_pc, an_in, an_text, an_exc, an_result>>
vars  == <<now, last_request_time, running, pc, upload, frame, result, response, log,
           an_pc, an_in, an_text, an_exc, an_result>>

NoExc      == Exc("", "")
NoResult   == Raise(NoExc)
NoFrame    == [mode |-> "", current_time |-> -1, seen |-> -1, wait_time |-> -1]
NoResponse == [status |-> 0, raised_line |-> 0, detail |-> "", body |-> PyNone]

\* __init__ (lines 20-21) and the module level of main.py, before any request
GatewayInit ==
  /\ now = StartTime
  /\ last_request_time = 0
  /\ running = 0
  /\ pc = [p \in Req |-> "new"]
  /\ upload = [p \in Req |-> PyNone]
  /\ frame = [p \in Req |-> NoFrame]
  /\ result = [p \in Req |-> NoResult]
  /\ response = [p \in Req |-> NoResponse]
  /\ log = <<>>

AnIdle ==
  /\ an_pc = "idle"
  /\ an_in = [kind |-> "none"]
  /\ an_text = ""
  /\ an_exc = NoExc
  /\ an_result = NoResult

(***************************************************************************)
(* analyze_mri, from the return of generate_content, one outcome at a time *)
(***************************************************************************)
AnInit ==
  /\ GatewayInit
  /\ an_pc = "called"
  /\ an_in \in Outcomes
  /\ an_text = ""
  /\ an_exc = NoExc
  /\ an_result = NoResult

\* line 106: response_text = response.text.strip()
ReadText ==
  /\ an_pc = "called"
  /\ an_in.kind = "text"
  /\ an_text' = Strip(OutcomeOf(an_in).text)
  /\ an_pc' = "text"
  /\ UNCHANGED <<an_in, an_exc, an_result>>
  /\ UNCHANGED gvars

\* line 102 or line 106 raises
CallFails ==
  /\ an_pc = "called"
  /\ an_in.kind # "text"
  /\ an_exc' = OutcomeOf(an_in).exc
  /\ an_pc' = "raised"
  /\ UNCHANGED <<an_in, an_text, an_result>>
  /\ UNCHANGED gvars

\* lines 110-117
CleanText ==
  /\ an_pc = "text"
  /\ an_text' = StripFences(an_text)
  /\ an_pc' = "clean"
  /\ UNCHANGED <<an_in, an_exc, an_result>>
  /\ UNCHANGED gvars

\* lines 119-144 have run with outcome r
Parsed(r) ==
  IF r.ok
    THEN /\ an_result' = [ok |-> TRUE, v |-> r.v]
         /\ an_pc' = "returned"
         /\ UNCHANGED an_exc
    ELSE /\ an_exc' = r.exc
         /\ an_pc' = "raised"
         /\ UNCHANGED an_result

\* lines 119-144: parse, validate, return
ParseText ==
  /\ an_pc = "clean"
  /\ Parsed(ParseAndBackfill(an_text))
  /\ UNCHANGED <<an_in, an_text>>
  /\ UNCHANGED gvars

\* lines 146-202: the except block
HandleError ==
  /\ an_pc = "raised"
  /\ an_result' = Leave(Raise(an_exc))
  /\ an_pc' = "returned"
  /\ UNCHANGED <<an_in, an_text, an_exc>>
  /\ UNCHANGED gvars

AnNext == ReadText \/ CallFails \/ CleanText \/ ParseText \/ HandleError

SpecAnalyze == AnInit /\ [][AnNext]_vars

(***************************************************************************)
(* The gateway: POST /analyze handlers on one event loop, and the analyzer *)
(* they share.  A handler is a coroutine: it gives up the loop only at the *)
(* await of line 39; analyzer.analyze_mri is a plain call inside it.       *)
(***************************************************************************)
\* lines 60-61: except Exception as e: raise HTTPException(500, ...)
ServerError(line, e) ==
  [status |-> 500, raised_line |-> line, detail |-> "Analysis failed: " \o e.msg,
   body |-> PyNone]

\* lines 54-58
Success(analysis) ==
  [status |-> 200, raised_line |-> 0, detail |-> "",
   body |-> PyDict([success |-> PyBool(TRUE),
                    image_base64 |-> PyStr("base64(PNG(RGB))"),
                    analysis |-> analysis])]

\* the handler of p ends with response r
Finish(p, r) ==
  /\ response' = [response EXCEPT ![p] = r]
  /\ pc' = [pc EXCEPT ![p] = "done"]
  /\ frame' = [frame EXCEPT ![p] = NoFrame]
  /\ result' = [result EXCEPT ![p] = NoResult]
  /\ running' = 0

\* line 35
IsImage(content_type) == StartsWith(content_type.s, "image/")

\* lines 29-39: the request arrives; the handler runs to the await of file.read().
\* Requests are numbered in the order they arrive.
Arrive(p, content_type) ==
  /\ pc[p] = "new"
  /\ \A q \in Req : q < p => pc[q] # "new"
  /\ running = 0
  /\ upload' = [upload EXCEPT ![p] = content_type]
  /\ IF content_type.t # "str"
       THEN Finish(p, ServerError(35, Exc("AttributeError",
                      "'NoneType' object has no attribute 'startswith'")))
     ELSE IF ~IsImage(content_type)
       THEN Finish(p, ServerError(36, Exc("HTTPException", "400: File must be an image")))
     ELSE /\ pc' = [pc EXCEPT ![p] = "reading"]
          /\ UNCHANGED <<running, frame, result, response>>
  /\ UNCHANGED <<now, last_request_time, log>>
  /\ UNCHANGED avars

\* lines 39-40: file.read() is done, the handler takes the loop; Image.open
OpenImage(p, mode) ==
  /\ pc[p] = "reading"
  /\ running = 0
  /\ IF mode = "fail"
       THEN Finish(p, ServerError(40, Exc("UnidentifiedImageError",
                                           "cannot identify image file")))
       ELSE /\ running' = p
            /\ pc' = [pc EXCEPT ![p] = "decoded"]
            /\ frame' = [frame EXCEPT ![p].mode = mode]
            /\ UNCHANGED <<result, response>>
  /\ UNCHANGED <<now, last_request_time, upload, log>>
  /\ UNCHANGED avars

\* lines 43-44: convert to RGB if necessary
Convert(p, converts) ==
  /\ pc[p] = "decoded"
  /\ running = p
  /\ frame[p].mode = "RGB" => converts
  /\ IF ~converts
       THEN Finish(p, ServerError(44, Exc("OSError", "image file is truncated")))
       ELSE /\ pc' = [pc EXCEPT ![p] = "rgb"]
            /\ frame' = [frame EXCEPT ![p].mode = "RGB"]
            /\ UNCHANGED <<running, result, response>>
  /\ UNCHANGED <<now, last_request_time, upload, log>>
  /\ UNCHANGED avars

\* lines 93-94 sleeping the whole interval
WaitTimeWholeInterval(time_since_last_request) ==
  IF time_since_last_request < min_request_interval
    THEN min_request_interval
    ELSE 0

\* lines 93-94: wait_time, 0 when time.sleep is not called
WaitTime(time_since_last_request) ==
  IF time_since_last_request < min_request_interval
    THEN min_request_interval - time_since_last_request
    ELSE 0

\* lines 91-95: the analyzer reads the clock and the timestamp
Pace(p) ==
  /\ pc[p] = "rgb"
  /\ running = p
  /\ frame' = [frame EXCEPT ![p].current_time = now,
                            ![p].seen = last_request_time,
                            ![p].wait_time = WaitTime(now - last_request_time)]
  /\ pc' = [pc EXCEPT ![p] = "paced"]
  /\ UNCHANGED <<now, last_request_time, running, upload, result, response, log>>
  /\ UNCHANGED avars

\* lines 96-102: time.sleep(wait_time) is over; generate_content is called
Send(p) ==
  /\ pc[p] = "paced"
  /\ running = p
  /\ now >= frame[p].current_time + frame[p].wait_time
  /\ log' = Append(log, [req |-> p, seen |-> frame[p].seen,
                         current_time |-> frame[p].current_time,
                         wait_time |-> frame[p].wait_time,
                         start |-> now, end |-> -1, outcome |-> "pending",
                         inflight |-> {q \in Req : pc[q] \notin {"new", "done"}}])
  /\ pc' = [pc EXCEPT ![p] = "calling"]
  /\ UNCHANGED <<now, last_request_time, running, upload, frame, result, response>>
  /\ UNCHANGED avars

\* lines 102-103 without line 103
TimestampNeverSet(o, old, t) == old

\* lines 102-103: the timestamp after a call with outcome o, made at time t
TimestampAfter(o, old, t) == IF o.kind = "call_raises" THEN old ELSE t

\* a retry loop around line 102: a raising call is made again
PcRetryOnFailure(o) == IF o.kind = "call_raises" THEN "paced" ELSE "analyzed"

\* where the handler stands once analyze_mri has handled outcome o: back at
\* line 47, with the result; there is no loop around the call
PcAfterCall(o) == "analyzed"

\* line 47: analyze_mri has left with r
Returned(p, o, r) ==
  IF r.ok
    THEN /\ result' = [result EXCEPT ![p] = r]
         /\ pc' = [pc EXCEPT ![p] = PcAfterCall(o)]
         /\ UNCHANGED <<running, frame, response>>
    ELSE Finish(p, ServerError(47, r.exc))

\* lines 104-202 for each outcome of the call
AnalyzeResults == [i \in GatewayOutcomes |-> AnalyzeOutcome(OutcomeOf(i))]

\* lines 102-202: generate_content returns or raises; analyze_mri builds its result
CallReturns(p, i) ==
  /\ pc[p] = "calling"
  /\ running = p
  /\ last_request_time' = TimestampAfter(OutcomeOf(i), last_request_time, now)
  /\ log' = [log EXCEPT ![Len(log)].end = now, ![Len(log)].outcome = i.kind]
  /\ Returned(p, OutcomeOf(i), AnalyzeResults[i])
  /\ UNCHANGED <<now, upload>>
  /\ UNCHANGED avars

\* json.dumps(..., allow_nan=False) of JSONResponse.render refuses these
RECURSIVE HasNonFinite(_)
HasNonFinite(v) ==
  IF v.t = "float" THEN v.lit \in {"NaN", "Infinity", "-Infinity"}
  ELSE IF v.t = "list" THEN \E k \in 1..Len(v.items) : HasNonFinite(v.items[k])
  ELSE IF v.t = "dict" THEN \E k \in DOMAIN v.members : HasNonFinite(v.members[k])
  ELSE FALSE

\* lines 49-58: encode the image, build the response
Respond(p, saved) ==
  /\ pc[p] = "analyzed"
  /\ running = p
  /\ IF ~saved
       THEN Finish(p, ServerError(51, Exc("OSError", "encoder error when writing image file")))
     ELSE IF HasNonFinite(result[p].v)
       THEN Finish(p, ServerError(54, Exc("ValueError",
                      "Out of range float values are not JSON compliant")))
     ELSE Finish(p, Success(result[p].v))
  /\ UNCHANGED <<now, last_request_time, upload, log>>
  /\ UNCHANGED avars

\* a second passes: with the loop idle, in time.sleep (line 96) or in
\* generate_content (line 102); the other steps of a handler take no time on
\* the scale of min_request_interval
Tick ==
  /\ now < MaxTime
  /\ running # 0 => pc[running] \in {"paced", "calling"}
  /\ now' = now + 1
  /\ UNCHANGED <<last_request_time, running, pc, upload, frame, result, response, log>>
  /\ UNCHANGED avars

Init == GatewayInit /\ AnIdle

Next ==
  \/ \E p \in Req, content_type \in ContentTypes : Arrive(p, content_type)
  \/ \E p \in Req, mode \in ImageModes \cup {"fail"} : OpenImage(p, mode)
  \/ \E p \in Req, converts \in BOOLEAN : Convert(p, converts)
  \/ \E p \in Req : Pace(p)
  \/ \E p \in Req : Send(p)
  \/ \E p \in Req, i \in GatewayOutcomes : CallReturns(p, i)
  \/ \E p \in Req, saved \in BOOLEAN : Respond(p, saved)
  \/ Tick

Spec == Init /\ [][Next]_vars
(***************************************************************************)
(* Properties of analyze_mri, checked under SpecAnalyze.                   *)
(***************************************************************************)
HasFields(v) == v.t = "dict" /\ FieldSet \subseteq DOMAIN v.members

Classification(v) == v.members["primary_diagnosis"].members["classification"].s

\* word occurs in m, letter case ignored
Mentions(m, word) ==
  \E i \in 1..(Len(m) - Len(word) + 1) : Lower(SubSeq(m, i, i + Len(word) - 1)) = word

\* word occurs in m as written
MentionsExactly(m, word) ==
  \E i \in 1..(Len(m) - Len(word) + 1) : SubSeq(m, i, i + Len(word) - 1) = word

RateLimitMessage(m) ==
  MentionsExactly(m, "429") \/ Mentions(m, "quota") \/ Mentions(m, "rate limit")

Bucket(m) ==
  IF RateLimitMessage(m) THEN "Rate Limit"
  ELSE IF Mentions(m, "json") THEN "Parsing Error"
  ELSE "Error"

\* C1: whatever the call did (text that parses to an object with any subset
\* of the fields, text that parses to another JSON value, text that does not
\* parse, a raising call), what analyze_mri returns is a mapping that holds
\* all five top-level fields.
C1_AllFieldsPresent ==
  an_pc = "returned" => an_result.ok /\ HasFields(an_result.v)

\* C3: for every message the except block sees, the result is the rate-limit
\* bucket if the message contains "429", or "quota" or "rate limit" in any
\* letter case; else the parse-failure bucket if it contains "json" in any
\* letter case; else the generic bucket.  One bucket, rate limit first.
C3_Classification ==
  an_pc = "returned" /\ an_exc # NoExc
    => /\ an_result.ok
       /\ HasFields(an_result.v)
       /\ Classification(an_result.v) = Bucket(an_exc.msg)

\* a message that passes both tests has been put in the rate-limit bucket
C3_PrecedenceSeen ==
  /\ an_pc = "returned"
  /\ an_exc # NoExc
  /\ Mentions(an_exc.msg, "json")
  /\ RateLimitMessage(an_exc.msg)
  /\ Classification(an_result.v) = "Rate Limit"

\* C4: for a JSON text X, X inside a json-tagged fence and X inside a bare
\* fence, with or without whitespace and newlines around, are cleaned to the
\* text the unwrapped X is cleaned to, and analyze_mri returns for them what
\* it returns for the unwrapped X.
C4_FenceEquivalence ==
  an_in.kind = "text" /\ an_in.wrapper \in FenceWrappers /\ JsonLoads(an_in.body).ok
    => /\ an_pc = "clean" => an_text = StripFences(Strip(an_in.body))
       /\ an_pc = "returned" => an_result = AnalyzeOutcome(ReturnsText(an_in.body))

\* the complete object in a padded json fence has been returned as parsed
C4_FencedObjectParsed ==
  /\ an_pc = "returned"
  /\ an_in.kind = "text"
  /\ an_in.wrapper = "json_padded"
  /\ an_in.body = ObjectText(FieldSet)
  /\ an_text = an_in.body
  /\ an_result = JsonLoads(an_in.body)

\* the cleaned text is no JSON text, or is one that is no object
Deviates(text) == ~JsonLoads(text).ok \/ JsonLoads(text).v.t # "dict"

\* C9: when the cleaned text is not valid JSON, or is valid JSON that is no
\* object, analyze_mri returns the parse-failure result: error "Failed to
\* parse AI response", classification "Parsing Error".
C9_DeviationIsParseFailure ==
  an_pc = "returned" /\ an_in.kind = "text" /\ Deviates(an_text)
    => /\ an_result.ok
       /\ HasFields(an_result.v)
       /\ Classification(an_result.v) = "Parsing Error"
       /\ "error" \in DOMAIN an_result.v.members
       /\ an_result.v.members["error"] = PyStr("Failed to parse AI response")

(***************************************************************************)
(* Properties of the gateway and the pacing, checked under Spec.           *)
(***************************************************************************)
CallsOf(p) == Cardinality({i \in DOMAIN log : log[i].req = p})

\* C2: a request whose declared media type does not begin with "image/" is
\* answered with HTTP 400, and no call to the external model is made for it.
C2_NonImageIs400 ==
  \A p \in Req :
    pc[p] = "done" /\ upload[p].t = "str" /\ ~StartsWith(upload[p].s, "image/")
      => response[p].status = 400 /\ CallsOf(p) = 0

\* the wait the pacing owes for a call that starts at current_time and reads
\* the timestamp seen
PacedRight(seen, current_time, wait_time) ==
  /\ current_time - seen >= min_request_interval => wait_time = 0
  /\ current_time - seen < min_request_interval
       => wait_time = min_request_interval - (current_time - seen)

\* C5: a call that starts at least min_request_interval after the stored
\* timestamp (the first call included) is given no wait; one that starts e
\* seconds after it, e < min_request_interval, is given a wait of
\* min_request_interval - e, and its outbound call is not issued before.
C5_PacingWait ==
  /\ \A p \in Req :
       pc[p] \in {"paced", "calling"}
         => PacedRight(frame[p].seen, frame[p].current_time, frame[p].wait_time)
  /\ \A i \in DOMAIN log :
       /\ PacedRight(log[i].seen, log[i].current_time, log[i].wait_time)
       /\ log[i].start >= log[i].current_time + log[i].wait_time

\* the first call went out unpaced, a later one after exactly its wait
C5_WaitedSeen ==
  /\ Len(log) >= 2
  /\ log[1].seen = 0
  /\ log[1].wait_time = 0
  /\ \E i \in DOMAIN log :
       /\ log[i].wait_time > 0
       /\ log[i].current_time - log[i].seen < min_request_interval
       /\ log[i].start = log[i].current_time + log[i].wait_time

\* lines of main.py that raise before analyzer.analyze_mri is called
LinesBeforeAnalyze == {35, 36, 40, 44}

\* C6: a request whose upload passes the media-type check and becomes an RGB
\* image makes exactly one generate_content call, whether the call returns or
\* raises; a request stopped before makes none; no call is made again.
C6_ExactlyOneCall ==
  \A p \in Req :
    /\ CallsOf(p) <= 1
    /\ pc[p] \in {"calling", "analyzed"} => CallsOf(p) = 1
    /\ pc[p] = "done"
         => CallsOf(p) = IF response[p].raised_line \in LinesBeforeAnalyze THEN 0 ELSE 1

\* a request whose one call raised has been answered
C6_FailedCallAnswered ==
  \E p \in Req :
    /\ pc[p] = "done"
    /\ CallsOf(p) = 1
    /\ \E i \in DOMAIN log : log[i].req = p /\ log[i].outcome = "call_raises"

\* the i-th and the next call: two requests in flight together read the same
\* timestamp, neither waits, the calls start less than the interval apart
Race(i) ==
  /\ log[i + 1].req # log[i].req
  /\ log[i + 1].req \in log[i].inflight
  /\ log[i + 1].seen = log[i].seen
  /\ log[i].wait_time = 0
  /\ log[i + 1].wait_time = 0
  /\ log[i + 1].start - log[i].start < min_request_interval

C8_MinDelayAfterEveryCall ==
  \A i \in 1..(Len(log) - 1) :
    log[i + 1].start >= log[i].end + min_request_interval

\* lines of main.py whose failure is the gateway's own: the media-type check,
\* Image.open, convert, image.save, the rendering of the response
GatewayLines == {35, 36, 40, 44, 51, 54}

CallFailed(p) ==
  \E i \in DOMAIN log : log[i].req = p /\ log[i].outcome \in {"call_raises", "text_raises"}

\* the success envelope around a placeholder result
ErrorEnvelope(r) ==
  /\ r.status = 200
  /\ r.body.members["success"] = PyBool(TRUE)
  /\ r.body.members["image_base64"].t = "str"
  /\ HasFields(r.body.members["analysis"])
  /\ {"error", "details"} \subseteq DOMAIN r.body.members["analysis"].members

====
